---------------------------- MODULE Spec2Model ----------------------------
(***************************************************************************)
(* A model of script.py: the slotted-ALOHA throughput analysis.            *)
(*                                                                         *)
(* Numbers.  Python floats are modelled as IEEE 754 binary64 numbers with  *)
(* their rounding: a sign, a significand of 53 binary digits held as an    *)
(* arbitrary-precision natural (TLC's integers are 32 bits wide), and an   *)
(* exponent.  NaN is a distinguished value.                                *)
(***************************************************************************)
EXTENDS Integers, Sequences, FiniteSets, TLC

VARIABLES
    fn,         \* which unit is exercised: "throughput", "linspace",
                \* "find_max", or "main" for a run of the whole script
    arg,        \* the arguments of the call of a unit under test
    ret,        \* its outcome, or Pending before the call
    pc,         \* the statement of the script a run is about to execute
    avail,      \* _matplotlib_available
    axes,       \* the list axes of line 127: five panels, or five times None
    index,      \* the loop variable index of line 170
    n,          \* the loop variable n of line 170, analyze_n's argument
    points,     \* analyze_n's local points
    specific_points, \* analyze_n's local specific_points
    maxpt,      \* analyze_n's (max_p, max_throughput)
    maxpt_specific,  \* analyze_n's (max_p_specific, max_throughput_specific)
    out,        \* standard output: the sequence of lines printed so far
    fig         \* what the plotting library was asked to do, in order

vars == <<fn, arg, ret, pc, avail, axes, index, n, points, specific_points,
          maxpt, maxpt_specific, out, fig>>

---------------------------------------------------------------------------
(* Arbitrary-precision naturals: little-endian sequences of limbs in base  *)
(* Base, without leading zero limbs; zero is the empty sequence.           *)

\* a limb holds LimbBits bits
LimbBits == 14
Base == 2^LimbBits

RECURSIVE BigOfInt(_)
BigOfInt(i) == IF i = 0 THEN <<>> ELSE <<i % Base>> \o BigOfInt(i \div Base)

RECURSIVE IntOfBig(_)
IntOfBig(a) == IF a = <<>> THEN 0 ELSE Head(a) + Base * IntOfBig(Tail(a))

RECURSIVE BigAddC(_, _, _)
BigAddC(a, b, c) ==
    IF a = <<>> /\ b = <<>>
    THEN BigOfInt(c)
    ELSE LET x == IF a = <<>> THEN 0 ELSE Head(a)
             y == IF b = <<>> THEN 0 ELSE Head(b)
             s == x + y + c
         IN  <<s % Base>> \o BigAddC(IF a = <<>> THEN a ELSE Tail(a),
                                     IF b = <<>> THEN b ELSE Tail(b),
                                     s \div Base)

BigAdd(a, b) == BigAddC(a, b, 0)

RECURSIVE BigStrip(_)
BigStrip(a) ==
    IF a # <<>> /\ a[Len(a)] = 0 THEN BigStrip(SubSeq(a, 1, Len(a) - 1)) ELSE a

RECURSIVE BigSubB(_, _, _)
\* a - b - borrow, for a >= b + borrow; limbs only, leading zeros kept
BigSubB(a, b, c) ==
    IF a = <<>>
    THEN <<>>
    ELSE LET y == IF b = <<>> THEN 0 ELSE Head(b)
             d == Head(a) - y - c
         IN  <<IF d < 0 THEN d + Base ELSE d>>
             \o BigSubB(Tail(a), IF b = <<>> THEN b ELSE Tail(b),
                        IF d < 0 THEN 1 ELSE 0)

BigSub(a, b) == BigStrip(BigSubB(a, b, 0))

RECURSIVE BigMulLimbC(_, _, _)
\* a * m + c for one limb m (0 <= m <= Base)
BigMulLimbC(a, m, c) ==
    IF a = <<>>
    THEN BigOfInt(c)
    ELSE LET s == Head(a) * m + c
         IN  <<s % Base>> \o BigMulLimbC(Tail(a), m, s \div Base)

BigMulLimb(a, m) == IF m = 0 THEN <<>> ELSE BigMulLimbC(a, m, 0)

RECURSIVE BigMulBy(_, _)
\* a * b, limb by limb of b
BigMulBy(a, b) ==
    IF a = <<>> \/ b = <<>>
    THEN <<>>
    ELSE LET rest == BigMulBy(a, Tail(b))
         IN  BigAdd(BigMulLimb(a, Head(b)),
                    IF rest = <<>> THEN rest ELSE <<0>> \o rest)

BigMul(a, b) == IF Len(a) < Len(b) THEN BigMulBy(b, a) ELSE BigMulBy(a, b)

RECURSIVE BigPow(_, _)
BigPow(a, k) == IF k = 0 THEN <<1>> ELSE BigMul(a, BigPow(a, k - 1))

RECURSIVE BigLessFrom(_, _, _)
\* a < b on the limbs 1..i of two naturals of the same length
BigLessFrom(a, b, i) ==
    IF i = 0 THEN FALSE
    ELSE IF a[i] # b[i] THEN a[i] < b[i]
    ELSE BigLessFrom(a, b, i - 1)

BigLess(a, b) ==
    IF Len(a) # Len(b) THEN Len(a) < Len(b) ELSE BigLessFrom(a, b, Len(a))

RECURSIVE LimbBitLen(_)
LimbBitLen(v) == IF v = 0 THEN 0 ELSE 1 + LimbBitLen(v \div 2)

\* the number of binary digits of a
BitLen(a) ==
    IF a = <<>> THEN 0 ELSE LimbBits * (Len(a) - 1) + LimbBitLen(a[Len(a)])

\* a * 2^k
ShiftLeft(a, k) ==
    IF a = <<>> THEN a
    ELSE [i \in 1..(k \div LimbBits) |-> 0] \o BigMulLimb(a, 2^(k % LimbBits))

\* a // 2^k
ShiftRight(a, k) ==
    LET t == SubSeq(a, (k \div LimbBits) + 1, Len(a))
        b == k % LimbBits
    IN  BigStrip(<<>> \o [i \in 1..Len(t) |->
                    (t[i] \div 2^b)
                    + (IF i < Len(t) THEN (t[i + 1] % 2^b) * 2^(LimbBits - b)
                       ELSE 0)])

\* the binary digit of weight 2^k of a
Bit(a, k) ==
    IF (k \div LimbBits) + 1 > Len(a) THEN 0
    ELSE (a[(k \div LimbBits) + 1] \div 2^(k % LimbBits)) % 2

\* a % 2^k # 0
LowBits(a, k) ==
    \/ \E i \in 1..(k \div LimbBits) : i <= Len(a) /\ a[i] # 0
    \/ /\ (k \div LimbBits) + 1 <= Len(a)
       /\ a[(k \div LimbBits) + 1] % 2^(k % LimbBits) # 0

RECURSIVE DigitIn(_, _, _, _)
\* the q in lo..hi-1 with q*d <= r < (q+1)*d, given lo*d <= r < hi*d
DigitIn(r, d, lo, hi) ==
    IF hi - lo = 1 THEN lo
    ELSE LET mid == (lo + hi) \div 2
         IN  IF BigLess(r, BigMulLimb(d, mid))
             THEN DigitIn(r, d, lo, mid)
             ELSE DigitIn(r, d, mid, hi)

RECURSIVE BigDivModFrom(_, _, _, _, _)
\* long division of the limbs 1..i of a, given the quotient q and the
\* remainder r of the limbs above them
BigDivModFrom(a, d, i, q, r) ==
    IF i = 0 THEN [q |-> BigStrip(q), r |-> r]
    ELSE LET r1 == BigStrip(<<a[i]>> \o r)
             digit == DigitIn(r1, d, 0, Base)
         IN  IF digit = 0
             THEN BigDivModFrom(a, d, i - 1, <<0>> \o q, r1)
             ELSE BigDivModFrom(a, d, i - 1, <<digit>> \o q,
                                BigSub(r1, BigMulLimb(d, digit)))

\* a // d and a % d of two naturals, d > 0: the limbs of a above the first
\* Len(a) - Len(d) + 1 are less than d
BigDivMod(a, d) ==
    IF Len(a) < Len(d) THEN [q |-> <<>>, r |-> a]
    ELSE BigDivModFrom(a, d, Len(a) - Len(d) + 1, <<>>,
                       SubSeq(a, Len(a) - Len(d) + 2, Len(a)))

---------------------------------------------------------------------------
(* Exact rationals (-1)^neg * num/den, den > 0: the mathematical value of  *)
(* a float, and the numbers properties are stated with.  They are compared *)
(* by QLess and QEq, never by =.                                           *)

QMk(neg, num, den) == [neg |-> neg /\ num # <<>>, num |-> num, den |-> den]

\* the rational a/b of two ints, b > 0
Q(a, b) == QMk(a < 0, BigOfInt(IF a < 0 THEN 0 - a ELSE a), BigOfInt(b))

\* 2^k for an int k
QPow2(k) ==
    IF k >= 0 THEN QMk(FALSE, ShiftLeft(<<1>>, k), <<1>>)
    ELSE QMk(FALSE, <<1>>, ShiftLeft(<<1>>, 0 - k))

QMagLess(x, y) ==
    IF x.den = y.den
    THEN BigLess(x.num, y.num)
    ELSE BigLess(BigMul(x.num, y.den), BigMul(y.num, x.den))

QLess(x, y) ==
    IF x.neg # y.neg THEN x.neg
    ELSE IF x.neg THEN QMagLess(y, x)
    ELSE QMagLess(x, y)

QEq(x, y) == ~QLess(x, y) /\ ~QLess(y, x)

QLeq(x, y) == ~QLess(y, x)

QNeg(x) == QMk(~x.neg, x.num, x.den)

QAbs(x) == QMk(FALSE, x.num, x.den)

QMax(x, y) == IF QLess(x, y) THEN y ELSE x

QAdd(x, y) ==
    LET same == x.den = y.den
        d == IF same THEN x.den ELSE BigMul(x.den, y.den)
        a == IF same THEN x.num ELSE BigMul(x.num, y.den)
        b == IF same THEN y.num ELSE BigMul(y.num, x.den)
    IN  IF x.neg = y.neg THEN QMk(x.neg, BigAdd(a, b), d)
        ELSE IF BigLess(a, b) THEN QMk(y.neg, BigSub(b, a), d)
        ELSE QMk(x.neg, BigSub(a, b), d)

QSub(x, y) == QAdd(x, QNeg(y))

QMul(x, y) ==
    QMk(x.neg # y.neg, BigMul(x.num, y.num), BigMul(x.den, y.den))

---------------------------------------------------------------------------
(* Floats.  A Python float is an IEEE 754 binary64 number: NaN, or         *)
(* (-1)^neg * m * 2^e with m = 0 (and e = 0), or 2^52 <= m < 2^53; equal   *)
(* records are equal floats, except that -0.0 == 0.0.  Every operation     *)
(* returns the float nearest to the exact result, ties going to the even   *)
(* m.  The exponent is unbounded: no value of the script comes near the    *)
(* overflow or the subnormal range.  x ** y is C's pow, which the platform *)
(* computes to within one unit in the last place; FPow is the correctly    *)
(* rounded power.                                                          *)
(* An outcome is a returned value or a raised exception.                   *)

NaN == [nan |-> TRUE]
Return(v) == [val |-> v]
Raise(e) == [exc |-> e]
Raised(o) == "exc" \in DOMAIN o
ZeroDivisionError == Raise("ZeroDivisionError")
IndexError == Raise("IndexError")
\* no outcome yet
Pending == [pending |-> TRUE]

\* sys.float_info.mant_dig
MantDig == 53

isnan(x) == "nan" \in DOMAIN x

\* the float nearest to (-1)^neg * (M + f) * 2^E, where 0 <= f < 1, and
\* f > 0 iff sticky; with sticky, M has more than MantDig binary digits
FRound(neg, M, E, sticky) ==
    IF M = <<>> THEN [neg |-> neg, m |-> <<>>, e |-> 0]
    ELSE IF BitLen(M) <= MantDig
    THEN [neg |-> neg, m |-> ShiftLeft(M, MantDig - BitLen(M)),
          e |-> E - (MantDig - BitLen(M))]
    ELSE LET s == BitLen(M) - MantDig
             q == ShiftRight(M, s)
             up == /\ Bit(M, s - 1) = 1
                   /\ (sticky \/ LowBits(M, s - 1) \/ q[1] % 2 = 1)
             q1 == IF up THEN BigAdd(q, <<1>>) ELSE q
         IN  IF BitLen(q1) > MantDig
             THEN [neg |-> neg, m |-> ShiftRight(q1, 1), e |-> E + s + 1]
             ELSE [neg |-> neg, m |-> q1, e |-> E + s]

\* float(i) of an int i
FromInt(i) == FRound(i < 0, BigOfInt(IF i < 0 THEN 0 - i ELSE i), 0, FALSE)

\* the mathematical value of a float
QOf(x) ==
    IF x.e >= 0 THEN QMk(x.neg, ShiftLeft(x.m, x.e), <<1>>)
    ELSE QMk(x.neg, x.m, ShiftLeft(<<1>>, 0 - x.e))

\* |x| < |y|
FMagLess(x, y) ==
    IF y.m = <<>> THEN FALSE
    ELSE IF x.m = <<>> THEN TRUE
    ELSE IF x.e # y.e THEN x.e < y.e
    ELSE BigLess(x.m, y.m)

\* x < y, x == y and x <= y of two floats that are not NaN
FLess(x, y) ==
    IF x.neg
    THEN IF y.neg THEN FMagLess(y, x) ELSE x.m # <<>> \/ y.m # <<>>
    ELSE IF y.neg THEN FALSE ELSE FMagLess(x, y)

FEq(x, y) == ~FLess(x, y) /\ ~FLess(y, x)

FLeq(x, y) == ~FLess(y, x)

FNeg(x) == [neg |-> ~x.neg, m |-> x.m, e |-> x.e]

FAdd(x, y) ==
    IF x.m = <<>> /\ y.m = <<>> THEN [x EXCEPT !.neg = x.neg /\ y.neg]
    ELSE IF x.m = <<>> THEN y
    ELSE IF y.m = <<>> THEN x
    ELSE LET E == IF x.e < y.e THEN x.e ELSE y.e
             a == ShiftLeft(x.m, x.e - E)
             b == ShiftLeft(y.m, y.e - E)
         IN  IF x.neg = y.neg THEN FRound(x.neg, BigAdd(a, b), E, FALSE)
             ELSE IF a = b THEN FromInt(0)
             ELSE IF BigLess(a, b) THEN FRound(y.neg, BigSub(b, a), E, FALSE)
             ELSE FRound(x.neg, BigSub(a, b), E, FALSE)

FSub(x, y) == FAdd(x, FNeg(y))

FMul(x, y) == FRound(x.neg # y.neg, BigMul(x.m, y.m), x.e + y.e, FALSE)

\* i * x for an int i
FMulInt(i, x) == FMul(FromInt(i), x)

\* x / y: raises ZeroDivisionError when y is zero
FDiv(x, y) ==
    IF y.m = <<>> THEN ZeroDivisionError
    ELSE LET d == BigDivMod(ShiftLeft(x.m, MantDig + 2), y.m)
         IN  FRound(x.neg # y.neg, d.q, x.e - y.e - (MantDig + 2),
                    d.r # <<>>)

\* x / i for an int i
FDivInt(x, i) == FDiv(x, FromInt(i))

\* the float of the decimal literal that denotes a/b, b > 0
Dec(a, b) == FDiv(FromInt(a), FromInt(b))

\* x ** k for an int k: 0.0 to a negative power raises ZeroDivisionError
FPow(x, k) ==
    IF k >= 0
    THEN FRound(x.neg /\ k % 2 = 1, BigPow(x.m, k), x.e * k, FALSE)
    ELSE IF x.m = <<>> THEN ZeroDivisionError
    ELSE LET den == BigPow(x.m, 0 - k)
             K == BitLen(den) + MantDig + 2
             inv == BigDivMod(ShiftLeft(<<1>>, K), den)
         IN  FRound(x.neg /\ k % 2 = 1, inv.q, x.e * k - K, inv.r # <<>>)

\* f"{x:.4f}": the exact value of x rounded to four decimals, ties to
\* even, as the int number of ten-thousandths
Format4f(x) ==
    LET v == QOf(x)
        d == BigDivMod(BigMul(v.num, BigOfInt(10000)), v.den)
        twice == BigAdd(d.r, d.r)
        q == IntOfBig(d.q)
        r == IF BigLess(v.den, twice) \/ (twice = v.den /\ q % 2 = 1)
             THEN q + 1 ELSE q
    IN  IF x.neg THEN 0 - r ELSE r

---------------------------------------------------------------------------
(* The functions of script.py.                                             *)

\* a sign slip in the collision factor: (1.0 + p)
throughput_plus(nn, p) ==
    LET pw == FPow(FAdd(FromInt(1), p), 2 * (nn - 1))
    IN  IF Raised(pw) THEN NaN ELSE FMul(FMulInt(nn, p), pw)

\* the exponent without its factor 2: n - 1
throughput_half(nn, p) ==
    LET pw == FPow(FSub(FromInt(1), p), nn - 1)
    IN  IF Raised(pw) THEN NaN ELSE FMul(FMulInt(nn, p), pw)

\* the exponent off by one station: 2 * (n - 2)
throughput_off(nn, p) ==
    LET pw == FPow(FSub(FromInt(1), p), 2 * (nn - 2))
    IN  IF Raised(pw) THEN NaN ELSE FMul(FMulInt(nn, p), pw)

\* def throughput(n, p): lines 18-25
throughput(nn, p) ==
    LET pw == FPow(FSub(FromInt(1), p), 2 * (nn - 1))
    IN  IF Raised(pw)
        THEN NaN
        ELSE FMul(FMulInt(nn, p), pw)

\* the step taken over count intervals instead of count - 1
linspace_count(low, high, count) ==
    LET step_size == FDivInt(FSub(high, low), count)
    IN  IF Raised(step_size)
        THEN step_size
        ELSE Return([i \in 1..count |-> FAdd(low, FMulInt(i - 1, step_size))])

\* def linspace(low, high, count): lines 29-39
linspace(low, high, count) ==
    LET step_size == FDivInt(FSub(high, low), count - 1)
    IN  IF Raised(step_size)
        THEN step_size
        ELSE Return([i \in 1..count |-> FAdd(low, FMulInt(i - 1, step_size))])

\* def throughput_vectorized(n, xs): lines 41-50
throughput_vectorized(nn, xs_) ==
    [i \in 1..Len(xs_) |-> <<xs_[i], throughput(nn, xs_[i])>>]

\* the key function and order of sorted(..., key=lambda tup: tup[1])
KeyLess(a, b) == FLess(a[2], b[2])

\* sorted(seq, key=...): a stable ascending sort.  SortSeq is an insertion
\* sort that moves an element only past elements KeyLess puts after it, so
\* elements of equal key keep their input order, as in Python
sorted(seq) == SortSeq(seq, KeyLess)

\* the list comprehension of find_max: the points whose throughput is no NaN
NotNaN(pts) == SelectSeq(pts, LAMBDA point : ~isnan(point[2]))

\* [0] instead of [-1]
find_max_first(pts) ==
    LET s == sorted(NotNaN(pts))
    IN  IF s = <<>> THEN IndexError ELSE Return(s[1])

\* a default instead of the IndexError
find_max_default(pts) ==
    LET s == sorted(NotNaN(pts))
    IN  IF s = <<>> THEN Return(<<FromInt(0), FromInt(0)>>) ELSE Return(s[Len(s)])

\* sorted(..., reverse=True)[0]
find_max_reverse(pts) ==
    LET s == SortSeq(NotNaN(pts), LAMBDA a, b : KeyLess(b, a))
    IN  IF s = <<>> THEN IndexError ELSE Return(s[1])

\* def find_max(points): lines 52-59; [-1] of an empty list raises IndexError
find_max(pts) ==
    LET s == sorted(NotNaN(pts))
    IN  IF s = <<>> THEN IndexError ELSE Return(s[Len(s)])

\* xs = linspace(0.0, 1.0, count=10001): line 62, with its count as parameter
DenseCount == 10001
xs(count) == linspace(FromInt(0), FromInt(1), count).val

\* specific_xs: lines 65-82, the literals 0.01, 0.05, ..., 0.75
specific_xs ==
    [i \in 1..16 |->
        Dec(<<1, 5, 10, 15, 20, 25, 30, 35, 40, 45, 50, 55, 60, 65, 70, 75>>[i],
            100)]

\* def split(points): lines 84-99
split(pts) ==
    <<[i \in 1..Len(pts) |-> pts[i][1]], [i \in 1..Len(pts) |-> pts[i][2]]>>

---------------------------------------------------------------------------
(* A run of the script, statement by statement.  The import of lines 11-15 *)
(* has succeeded or failed when the run starts.  The runs are checked with *)
(* a dense sweep of RunCount probabilities, xs(RunCount); the sweep over   *)
(* the 10001 probabilities of line 62 is checked under SpecSweep.          *)

RunCount == 101

\* range(1, 5+1) of line 170, off by one
NetworkSizesShort == <<1, 2, 3, 4>>

\* range(1, 5+1) of line 170
NetworkSizes == <<1, 2, 3, 4, 5>>

Line(t) == [text |-> t]

Init ==
    /\ fn = "main" /\ arg = <<>> /\ ret = Pending
    /\ pc = "create_axes"
    /\ avail \in BOOLEAN
    /\ axes = <<>>
    /\ index = -1
    /\ n = 0
    /\ points = <<>>
    /\ specific_points = <<>>
    /\ maxpt = <<>>
    /\ maxpt_specific = <<>>
    /\ out = <<>>
    /\ fig = <<>>

locals == <<points, specific_points, maxpt, maxpt_specific>>

\* print(...): one line more on standard output
Stdout(line, from, to) ==
    /\ pc = from
    /\ out' = Append(out, line)
    /\ pc' = to
    /\ UNCHANGED <<fn, arg, ret, avail, axes, index, n, locals, fig>>

\* lines 102-127: the figure and its panels ax1..ax5, or None five times
CreateAxes ==
    /\ pc = "create_axes"
    /\ IF avail
       THEN /\ fig' = <<[op |-> "subplots"], [op |-> "suptitle"],
                        [op |-> "set_size_inches"], [op |-> "set_dpi"],
                        [op |-> "remove", ax |-> 6]>>
            /\ axes' = <<1, 2, 3, 4, 5>>
       ELSE /\ fig' = fig
            /\ axes' = <<0, 0, 0, 0, 0>>
    /\ pc' = "for"
    /\ UNCHANGED <<fn, arg, ret, avail, index, n, locals, out>>

\* line 170-171: the next network size and the call of analyze_n, or the
\* end of the loop
For ==
    /\ pc = "for"
    /\ IF index + 1 < Len(NetworkSizes)
       THEN /\ index' = index + 1
            /\ n' = NetworkSizes[index + 2]
            /\ pc' = "print_blank"
       ELSE /\ pc' = "if_available"
            /\ UNCHANGED <<index, n>>
    /\ UNCHANGED <<fn, arg, ret, avail, axes, locals, out, fig>>

\* line 132
PrintBlank == Stdout(Line("blank"), "print_blank", "print_header")

\* line 133
PrintHeader ==
    Stdout([text |-> "header", n |-> n], "print_header", "points")

\* line 134
Points ==
    /\ pc = "points"
    /\ points' = throughput_vectorized(n, xs(RunCount))
    /\ pc' = "specific_points"
    /\ UNCHANGED <<fn, arg, ret, avail, axes, index, n, specific_points,
                   maxpt, maxpt_specific, out, fig>>

\* line 135
SpecificPoints ==
    /\ pc = "specific_points"
    /\ specific_points' = throughput_vectorized(n, specific_xs)
    /\ pc' = "find_max"
    /\ UNCHANGED <<fn, arg, ret, avail, axes, index, n, points, maxpt,
                   maxpt_specific, out, fig>>

\* line 136; an IndexError is not caught and ends the run
FindMax ==
    /\ pc = "find_max"
    /\ LET r == find_max(points)
       IN  IF Raised(r)
           THEN pc' = "traceback" /\ ret' = r /\ UNCHANGED maxpt
           ELSE pc' = "find_max_specific" /\ maxpt' = r.val /\ UNCHANGED ret
    /\ UNCHANGED <<fn, arg, avail, axes, index, n, points, specific_points,
                   maxpt_specific, out, fig>>

\* line 137
FindMaxSpecific ==
    /\ pc = "find_max_specific"
    /\ LET r == find_max(specific_points)
       IN  IF Raised(r)
           THEN pc' = "traceback" /\ ret' = r /\ UNCHANGED maxpt_specific
           ELSE pc' = "print_max" /\ maxpt_specific' = r.val /\ UNCHANGED ret
    /\ UNCHANGED <<fn, arg, avail, axes, index, n, points, specific_points,
                   maxpt, out, fig>>

\* line 138
PrintMax ==
    Stdout([text |-> "max", p |-> Format4f(maxpt[1]),
           throughput |-> Format4f(maxpt[2])],
          "print_max", "print_max_specific")

\* lines 139-142
PrintMaxSpecific ==
    Stdout([text |-> "max_specific", p |-> Format4f(maxpt_specific[1]),
           throughput |-> Format4f(maxpt_specific[2])],
          "print_max_specific", "if_ax")

\* line 145: a panel is true, None is false; without a panel analyze_n
\* returns
IfAx ==
    /\ pc = "if_ax"
    /\ IF axes[index + 1] # 0
       THEN pc' = "plot" /\ UNCHANGED locals
       ELSE /\ pc' = "for"
            /\ points' = <<>> /\ specific_points' = <<>>
            /\ maxpt' = <<>> /\ maxpt_specific' = <<>>
    /\ UNCHANGED <<fn, arg, ret, avail, axes, index, n, out, fig>>

\* lines 149-166: the panel of this network size; analyze_n returns
Plot ==
    /\ pc = "plot"
    /\ fig' = Append(fig, [op |-> "panel", ax |-> axes[index + 1],
                           plot |-> split(points),
                           scatter |-> split(specific_points),
                           maximum |-> maxpt,
                           label |-> <<Format4f(maxpt[1]), Format4f(maxpt[2])>>,
                           title |-> n])
    /\ pc' = "for"
    /\ points' = <<>> /\ specific_points' = <<>>
    /\ maxpt' = <<>> /\ maxpt_specific' = <<>>
    /\ UNCHANGED <<fn, arg, ret, avail, axes, index, n, out>>

\* line 173, taking the first branch whatever _matplotlib_available is
IfAvailableAlways ==
    /\ pc = "if_available"
    /\ pc' = "print_saving"
    /\ UNCHANGED <<fn, arg, ret, avail, axes, index, n, locals, out, fig>>

\* line 173
IfAvailable ==
    /\ pc = "if_available"
    /\ pc' = IF avail THEN "print_saving" ELSE "print_error"
    /\ UNCHANGED <<fn, arg, ret, avail, axes, index, n, locals, out, fig>>

\* line 177
PrintSaving == Stdout(Line("saving"), "print_saving", "savefig")

\* line 178 outside a try statement: an exception ends the run
SavefigUncaught ==
    /\ pc = "savefig"
    /\ \E ok \in BOOLEAN :
        /\ fig' = Append(fig, [op |-> "savefig", file |-> "plots.png",
                               ok |-> ok])
        /\ pc' = IF ok THEN "print_success" ELSE "traceback"
    /\ UNCHANGED <<fn, arg, ret, avail, axes, index, n, locals, out>>

\* lines 176, 178 and 180: plt.savefig writes the file or raises an
\* Exception, which the except clause catches
Savefig ==
    /\ pc = "savefig"
    /\ \E ok \in BOOLEAN :
        /\ fig' = Append(fig, [op |-> "savefig", file |-> "plots.png",
                               ok |-> ok])
        /\ pc' = IF ok THEN "print_success" ELSE "print_failure"
    /\ UNCHANGED <<fn, arg, ret, avail, axes, index, n, locals, out>>

\* line 179
PrintSuccess == Stdout(Line("success"), "print_success", "print_displaying")

\* line 181
PrintFailure == Stdout(Line("failure"), "print_failure", "print_unable")

\* line 182
PrintUnable == Stdout(Line("unable_to_save"), "print_unable", "print_details")

\* line 183
PrintDetails ==
    Stdout(Line("error_details"), "print_details", "print_displaying")

\* line 184
PrintDisplaying == Stdout(Line("displaying"), "print_displaying", "show")

\* line 185
Show ==
    /\ pc = "show"
    /\ fig' = Append(fig, [op |-> "show"])
    /\ pc' = "print_done"
    /\ UNCHANGED <<fn, arg, ret, avail, axes, index, n, locals, out>>

\* line 186, the last statement of the script
PrintDone == Stdout(Line("done"), "print_done", "exit")

\* lines 188-191
PrintError == Stdout(Line("matplotlib_not_available"), "print_error", "blank1")

\* line 192
PrintBlank1 == Stdout(Line("blank"), "blank1", "print_install")

\* line 193
PrintInstall == Stdout(Line("can_be_installed_with"), "print_install", "blank2")

\* line 194
PrintBlank2 == Stdout(Line("blank"), "blank2", "print_command")

\* line 195
PrintCommand == Stdout(Line("pip_install_matplotlib"), "print_command", "blank3")

\* line 196
PrintBlank3 == Stdout(Line("blank"), "blank3", "print_will_exit")

\* line 197, the last statement of the script
PrintWillExit == Stdout(Line("program_will_exit"), "print_will_exit", "exit")

Next ==
    \/ CreateAxes \/ For
    \/ PrintBlank \/ PrintHeader \/ Points \/ SpecificPoints
    \/ FindMax \/ FindMaxSpecific \/ PrintMax \/ PrintMaxSpecific
    \/ IfAx \/ Plot
    \/ IfAvailable
    \/ PrintSaving \/ Savefig \/ PrintSuccess
    \/ PrintFailure \/ PrintUnable \/ PrintDetails
    \/ PrintDisplaying \/ Show \/ PrintDone
    \/ PrintError \/ PrintBlank1 \/ PrintInstall \/ PrintBlank2
    \/ PrintCommand \/ PrintBlank3 \/ PrintWillExit

Spec == Init /\ [][Next]_vars

---------------------------------------------------------------------------
(* Calls of one function on inputs drawn from bounded sets.                *)

\* no run of the script is in progress
Idle ==
    /\ pc = "unit"
    /\ avail = FALSE
    /\ axes = <<>>
    /\ index = 0
    /\ n = 0
    /\ points = <<>>
    /\ specific_points = <<>>
    /\ maxpt = <<>>
    /\ maxpt_specific = <<>>
    /\ out = <<>>
    /\ fig = <<>>

script == <<pc, avail, axes, index, n, points, specific_points, maxpt,
            maxpt_specific, out, fig>>

\* find_max on every list of at most MaxLen points; -0.0 and 0.0 are two
\* floats that compare equal
MaxLen == 3
PointXs == {FromInt(0), FromInt(1)}
PointYs ==
    {NaN, Dec(-1, 2), FNeg(FromInt(0)), FromInt(0), Dec(1, 2), FromInt(1)}
PointLists ==
    UNION {[1..k -> PointXs \X PointYs] : k \in 0..MaxLen}

InitFindMax == fn = "find_max" /\ arg \in PointLists /\ ret = Pending /\ Idle

CallFindMax ==
    /\ fn = "find_max" /\ ret = Pending
    /\ ret' = find_max(arg)
    /\ UNCHANGED <<fn, arg, script>>

SpecFindMax == InitFindMax /\ [][CallFindMax]_vars

\* throughput on n in -MaxNeg..MaxN and the floats p = k / PGrid of [0, 1]
MaxNeg == 1
MaxN == 5
PGrid == 10

InitThroughput ==
    /\ fn = "throughput"
    /\ arg \in [n : (0 - MaxNeg)..MaxN, p : {Dec(k, PGrid) : k \in 0..PGrid}]
    /\ ret = Pending
    /\ Idle

CallThroughput ==
    /\ fn = "throughput" /\ ret = Pending
    /\ ret' = Return(throughput(arg.n, arg.p))
    /\ UNCHANGED <<fn, arg, script>>

SpecThroughput == InitThroughput /\ [][CallThroughput]_vars

\* linspace on endpoints in LinEnds and counts 1..MaxLinCount, and the call
\* of line 62; Epsilon is sys.float_info.epsilon, 2^(1 - MantDig), and
\* 1.0 + Epsilon the float next to 1.0
MaxLinCount == 50
Epsilon == FRound(FALSE, <<1>>, 1 - MantDig, FALSE)
LinEnds ==
    {FromInt(-1), FromInt(0), Dec(1, 2), FromInt(1),
     FAdd(FromInt(1), Epsilon)}
DenseArgs == [low |-> FromInt(0), high |-> FromInt(1), count |-> DenseCount]

InitLinspace ==
    /\ fn = "linspace"
    /\ arg \in [low : LinEnds, high : LinEnds, count : 1..MaxLinCount]
               \cup {DenseArgs}
    /\ ret = Pending
    /\ Idle

CallLinspace ==
    /\ fn = "linspace" /\ ret = Pending
    /\ ret' = linspace(arg.low, arg.high, arg.count)
    /\ UNCHANGED <<fn, arg, script>>

SpecLinspace == InitLinspace /\ [][CallLinspace]_vars

\* lines 134 and 136 of analyze_n, the sweep and its maximum, on
\* n in -MaxNeg..MaxN over linspace(0.0, 1.0, count) for count in
\* 2..MaxCount, and for n = 2 over the xs of line 62
MaxCount == 12

Sweep(nn, count) ==
    LET pts == throughput_vectorized(nn, xs(count))
    IN  [points |-> pts, max |-> find_max(pts)]

InitSweep ==
    /\ fn = "sweep"
    /\ arg \in [n : (0 - MaxNeg)..MaxN, count : 2..MaxCount]
               \cup {[n |-> 2, count |-> DenseCount]}
    /\ ret = Pending
    /\ Idle

CallSweep ==
    /\ fn = "sweep" /\ ret = Pending
    /\ ret' = Return(Sweep(arg.n, arg.count))
    /\ UNCHANGED <<fn, arg, script>>

SpecSweep == InitSweep /\ [][CallSweep]_vars


---------------------------------------------------------------------------
(* Properties of find_max, under SpecFindMax.                              *)

Called(f) == fn = f /\ ret # Pending
Valid(pts) == {i \in DOMAIN pts : ~isnan(pts[i][2])}

\* C1: when some point of the input has a throughput that is not NaN,
\* find_max returns a point of the input whose throughput is not NaN and is
\* at least the throughput of every point that is not NaN; what it returns
\* is what it returns on the input without its NaN points.
C1_FindMaxIsMaximum ==
    (Called("find_max") /\ Valid(arg) # {}) =>
        /\ ~Raised(ret)
        /\ \E i \in DOMAIN arg : arg[i] = ret.val
        /\ ~isnan(ret.val[2])
        /\ \A j \in Valid(arg) : FLeq(arg[j][2], ret.val[2])
        /\ ret = find_max(NotNaN(arg))

\* a NaN point, a smaller and a greater throughput, the greatest not last
C1_Witness ==
    /\ Called("find_max") /\ ~Raised(ret)
    /\ Len(arg) = 3
    /\ isnan(arg[3][2])
    /\ ~isnan(arg[1][2]) /\ ~isnan(arg[2][2])
    /\ FLess(arg[2][2], arg[1][2])
    /\ ret.val = arg[1]

\* C2: find_max on a list whose points all have NaN throughput, the empty
\* list included, raises; it returns nothing.
C2_AllNaNRaises ==
    (Called("find_max") /\ Valid(arg) = {}) => ret = IndexError

C2_Witness ==
    /\ Called("find_max") /\ Len(arg) = 2 /\ Valid(arg) = {}
    /\ Raised(ret)

\* the last point in input order among those of the greatest throughput
LastMaximal(pts) ==
    CHOOSE i \in Valid(pts) :
        /\ \A j \in Valid(pts) : FLeq(pts[j][2], pts[i][2])
        /\ \A j \in Valid(pts) : j > i => FLess(pts[j][2], pts[i][2])

\* C9: among the points that share the greatest throughput, find_max
\* returns the one that is last in the input.
C9_TieReturnsLast ==
    (Called("find_max") /\ Valid(arg) # {}) =>
        /\ ~Raised(ret)
        /\ ret.val = arg[LastMaximal(arg)]

\* two different points tie for the maximum and the later one is returned
C9_Witness ==
    /\ Called("find_max") /\ ~Raised(ret)
    /\ \E i, j \in Valid(arg) :
        /\ i < j
        /\ FEq(arg[i][2], arg[j][2])
        /\ arg[i] # arg[j]
        /\ \A k \in Valid(arg) : FLeq(arg[k][2], arg[j][2])
        /\ ret.val = arg[j]

---------------------------------------------------------------------------
(* Properties of throughput, under SpecThroughput.                         *)

\* C3: for n >= 1 and p in [0, 1], 0 <= throughput(n, p) <= 1.
C3_ThroughputInUnitInterval ==
    (Called("throughput") /\ arg.n >= 1) =>
        /\ ~isnan(ret.val)
        /\ FLeq(FromInt(0), ret.val)
        /\ FLeq(ret.val, FromInt(1))

C3_Witness ==
    /\ Called("throughput") /\ arg.n = 3
    /\ ~isnan(ret.val)
    /\ FLess(FromInt(0), ret.val) /\ FLess(ret.val, FromInt(1))

---------------------------------------------------------------------------
(* Properties of linspace, under SpecLinspace.                             *)

QAbsDiff(x, y) == QAbs(QSub(x, y))

\* the greater of |low| and |high|
Magnitude(a) == QMax(QAbs(QOf(a.low)), QAbs(QOf(a.high)))

\* (high - low) / (count - 1) and low + i * (high - low) / (count - 1), in
\* exact arithmetic
ExactStep(a) == QMul(Q(1, a.count - 1), QSub(QOf(a.high), QOf(a.low)))
ExactPoint(a, i) == QAdd(QOf(a.low), QMul(Q(i, 1), ExactStep(a)))

\* low + i * (high - low) / (count - 1), in floating-point arithmetic
FloatPoint(a, i) ==
    FAdd(a.low, FDivInt(FMulInt(i, FSub(a.high, a.low)), a.count - 1))

Increasing(seq) == \A i \in 1..(Len(seq) - 1) : FLess(seq[i], seq[i + 1])

\* C8 as amended: for low <= high and count >= 2, linspace returns count
\* elements; element i is low + i*(high-low)/(count-1) to within
\* 2^-50 * max(|low|, |high|); the first element is low, and the elements
\* never decrease; they increase strictly when low < high and the step
\* (high-low)/(count-1) is at least 2^-49 * max(|low|, |high|).
\* linspace(0.0, 1.0, 10001) has 10001 elements, the first 0.0, the last
\* 1.0, strictly increasing, neighbours 0.0001 apart to within 2^-52.
C8_LinspaceWithinRounding ==
    (Called("linspace") /\ FLeq(arg.low, arg.high) /\ arg.count >= 2) =>
        /\ ~Raised(ret)
        /\ Len(ret.val) = arg.count
        /\ \A i \in 0..(arg.count - 1) :
              QLeq(QAbsDiff(QOf(ret.val[i + 1]), ExactPoint(arg, i)),
                   QMul(QPow2(-50), Magnitude(arg)))
        /\ FEq(ret.val[1], arg.low)
        /\ \A i \in 1..(arg.count - 1) : FLeq(ret.val[i], ret.val[i + 1])
        /\ (/\ FLess(arg.low, arg.high)
            /\ QLeq(QMul(QPow2(-49), Magnitude(arg)), ExactStep(arg))) =>
              Increasing(ret.val)
        /\ arg = DenseArgs =>
              /\ Len(ret.val) = 10001
              /\ ret.val[1] = FromInt(0)
              /\ ret.val[10001] = FromInt(1)
              /\ Increasing(ret.val)
              /\ \A i \in 1..10000 :
                    QLeq(QAbsDiff(QSub(QOf(ret.val[i + 1]), QOf(ret.val[i])),
                                  Q(1, 10000)),
                         QPow2(-52))

\* the call of line 62: its last element is 1.0, and its element 3 is not
\* the float of 0.0003
C8_Witness ==
    /\ Called("linspace") /\ arg = DenseArgs
    /\ ~Raised(ret)
    /\ ret.val[10001] = FromInt(1)
    /\ ret.val[4] # Dec(3, 10000)

\* C8 as stated: for low <= high and count >= 2, linspace returns count
\* elements, element i equal to low + i*(high-low)/(count-1); the first is
\* low, the last is high, and the elements increase strictly when
\* low < high.
C8_LinspaceEvenlySpaced ==
    (Called("linspace") /\ FLeq(arg.low, arg.high) /\ arg.count >= 2) =>
        /\ ~Raised(ret)
        /\ Len(ret.val) = arg.count
        /\ \A i \in 0..(arg.count - 1) :
              FEq(ret.val[i + 1], FloatPoint(arg, i))
        /\ FEq(ret.val[1], arg.low)
        /\ FEq(ret.val[arg.count], arg.high)
        /\ FLess(arg.low, arg.high) => Increasing(ret.val)

---------------------------------------------------------------------------
(* Properties of the sweep and its maximum, under SpecSweep.               *)

\* C4: for n = 2 the maximum of the sweep over count evenly spaced
\* probabilities lies within one grid step of 1/3 and is at most 8/27, up
\* to rounding; on the 10001 probabilities of the dense sweep it is within
\* 0.0001 of 1/3 and printed as 0.3333, with a throughput printed as
\* 0.2963, not p = 0.5 with 0.25.
C4_DenseMaxIsAnalyticOptimum ==
    (Called("sweep") /\ arg.n = 2) =>
        /\ ~Raised(ret.val.max)
        /\ LET p == ret.val.max.val[1]
               s == ret.val.max.val[2]
           IN  /\ QLeq(QAbsDiff(QOf(p), Q(1, 3)), Q(1, arg.count - 1))
               /\ QLeq(QOf(s), QMul(Q(8, 27), QAdd(Q(1, 1), QPow2(-50))))
               /\ arg.count = DenseCount =>
                    /\ QLeq(QAbsDiff(QOf(p), Q(1, 3)), Q(1, 10000))
                    /\ Format4f(p) = 3333
                    /\ Format4f(s) = 2963
                    /\ ~FEq(p, Dec(1, 2))
                    /\ ~FEq(s, Dec(1, 4))

C4_Witness ==
    /\ Called("sweep") /\ arg.n = 2 /\ arg.count = DenseCount
    /\ Len(ret.val.points) = 10001
    /\ ret.val.max.val[1] = FMulInt(3333, Dec(1, 10000))

\* C10 as amended: for n >= 1 no point of a sweep over probabilities in
\* [0, 1] has a NaN throughput: throughput does not take its
\* ZeroDivisionError branch, and find_max's filter removes nothing.
C10_NoNaNForPositiveN ==
    (Called("sweep") /\ arg.n >= 1) =>
        /\ \A i \in DOMAIN ret.val.points : ~isnan(ret.val.points[i][2])
        /\ NotNaN(ret.val.points) = ret.val.points

C10_Witness ==
    /\ Called("sweep") /\ arg.n = 1 /\ arg.count = 3
    /\ ret.val.points[3][1] = FromInt(1)
    /\ ~isnan(ret.val.points[3][2])

\* C10 as stated: for any integer n no point of a sweep has a NaN
\* throughput.
C10_NoNaNForAnyN ==
    Called("sweep") =>
        \A i \in DOMAIN ret.val.points : ~isnan(ret.val.points[i][2])

---------------------------------------------------------------------------
(* Properties of a run of the script, under Spec.                          *)

BlockTexts == {"header", "max", "max_specific"}
IsBlockLine(l) == l.text \in BlockTexts

\* the header and maximum lines printed so far, and those among the first
\* j lines
BlockLines == SelectSeq(out, IsBlockLine)
BlockLinesBefore(j) == SelectSeq(SubSeq(out, 1, j - 1), IsBlockLine)

Count(t) == Cardinality({j \in DOMAIN out : out[j].text = t})
Printed(t) == \E j \in DOMAIN out : out[j].text = t
Asked(o) == \E i \in DOMAIN fig : fig[i].op = o

\* the lines of lines 177-197: the save, display and missing-library messages
MessageTexts ==
    {"saving", "success", "failure", "unable_to_save", "error_details",
     "displaying", "done", "matplotlib_not_available",
     "can_be_installed_with", "pip_install_matplotlib", "program_will_exit"}

\* C5: a run prints five blocks, for n = 1, 2, 3, 4, 5 in this order, with
\* or without the plotting library; a block is the header naming n, then
\* the line of the dense maximum, then the line of the maximum over the
\* representative probabilities; the five blocks are complete before the
\* figure is saved or shown and before any message about saving, showing
\* or the missing library is printed.
C5_FiveBlocksInOrder ==
    fn = "main" =>
        /\ Len(BlockLines) <= 3 * 5
        /\ \A i \in DOMAIN BlockLines :
              LET l == BlockLines[i]
              IN  CASE (i - 1) % 3 = 0 ->
                          l.text = "header" /\ l.n = ((i - 1) \div 3) + 1
                    [] (i - 1) % 3 = 1 -> l.text = "max"
                    [] (i - 1) % 3 = 2 -> l.text = "max_specific"
        /\ \A j \in DOMAIN out :
              out[j].text = "header" =>
                  /\ j + 1 <= Len(out) => out[j + 1].text = "max"
                  /\ j + 2 <= Len(out) => out[j + 2].text = "max_specific"
        /\ \A j \in DOMAIN out :
              out[j].text \in MessageTexts => Len(BlockLinesBefore(j)) = 3 * 5
        /\ (Asked("savefig") \/ Asked("show")) => Len(BlockLines) = 3 * 5
        /\ pc = "exit" => Len(BlockLines) = 3 * 5

C5_Witness ==
    /\ fn = "main" /\ pc = "exit" /\ avail
    /\ Len(BlockLines) = 15
    /\ BlockLines[13] = [text |-> "header", n |-> 5]
    /\ Printed("done")

SaveFailed == \E i \in DOMAIN fig : fig[i].op = "savefig" /\ ~fig[i].ok

\* C6: when plt.savefig raises, the failure is reported on standard output,
\* the run goes on to plt.show and to its last statement; with the plotting
\* library the figure is never shown before the attempt to save it.
C6_SaveFailureStillShows ==
    fn = "main" =>
        /\ \A i \in DOMAIN fig :
              fig[i].op = "show" =>
                  \E j \in 1..(i - 1) : fig[j].op = "savefig"
        /\ (avail /\ pc = "exit") => Asked("savefig") /\ Asked("show")
        /\ SaveFailed =>
              /\ pc \in {"print_failure", "print_unable", "print_details",
                         "print_displaying", "show", "print_done", "exit"}
              /\ pc = "print_failure" \/ Printed("failure")
              /\ pc \in {"print_displaying", "show", "print_done", "exit"} =>
                    Printed("unable_to_save") /\ Printed("error_details")
              /\ pc \in {"print_done", "exit"} =>
                    fig[Len(fig)].op = "show"
              /\ pc = "exit" =>
                    /\ Printed("unable_to_save") /\ Printed("error_details")
                    /\ Printed("displaying") /\ Printed("done")
                    /\ ~Printed("success")

C6_Witness ==
    /\ fn = "main" /\ pc = "exit"
    /\ SaveFailed
    /\ fig[Len(fig)].op = "show"
    /\ Printed("failure")

\* C7: without the plotting library the run still prints the five blocks
\* and reaches its last statement; nothing is drawn, saved or shown, and
\* the message naming the missing library and the one giving the install
\* command are each printed once, after the fifth block.
C7_TextOnlyWithoutMatplotlib ==
    (fn = "main" /\ ~avail) =>
        /\ fig = <<>>
        /\ pc # "traceback"
        /\ Count("matplotlib_not_available") <= 1
        /\ Count("pip_install_matplotlib") <= 1
        /\ \A j \in DOMAIN out :
              out[j].text \in {"matplotlib_not_available",
                               "pip_install_matplotlib"} =>
                  Len(BlockLinesBefore(j)) = 3 * 5
        /\ pc = "exit" =>
              /\ Len(BlockLines) = 3 * 5
              /\ Count("matplotlib_not_available") = 1
              /\ Count("pip_install_matplotlib") = 1
              /\ out[Len(out)].text = "program_will_exit"

C7_Witness ==
    /\ fn = "main" /\ ~avail /\ pc = "exit"
    /\ Len(BlockLines) = 15
    /\ Printed("pip_install_matplotlib")
    /\ fig = <<>>

=============================================================================
